---- MODULE Spec2Model ----
(***************************************************************************)
(* A model of the fluent HTTP request builder of request.go.               *)
(*                                                                         *)
(* The state is the Request struct (headers, queryParams, body, bodyBytes, *)
(* result) plus `call`, the observable outcome of the verb call that has   *)
(* just returned: its inputs, the request handed to the transport, how     *)
(* many times the transport was invoked, how many times the response body  *)
(* was closed, and the returned pair.  A configuration operation clears    *)
(* `call`, so while `call` names a call the configuration is the one that  *)
(* call left behind.                                                       *)
(*                                                                         *)
(* Byte slices are strings; a nil slice and an empty slice are both ""     *)
(* (the code only takes len() of them and wraps them in a bytes.Reader).   *)
(* Query keys and values are sequences of one-character strings so that    *)
(* url.QueryEscape and url.QueryUnescape are computed character by         *)
(* character.                                                              *)
(***************************************************************************)
EXTENDS Integers, Sequences, FiniteSets, TLC

VARIABLES headers, queryParams, body, bodyBytes, result, call,
          lastWrite, jsonBodySet, callerWroteJSONType, lastBulk, singles

config == <<headers, queryParams, body, bodyBytes, result>>
ghosts == <<lastWrite, jsonBodySet, callerWroteJSONType, lastBulk, singles>>
vars == <<headers, queryParams, body, bodyBytes, result, call,
          lastWrite, jsonBodySet, callerWroteJSONType, lastBulk, singles>>

(***************************************************************************)
(* Bounds and input domains                                                *)
(***************************************************************************)
\* Longest value list a query key is driven to by single adds.
MaxVals == 2

Nil == "nil"
Absent == "<absent>"

\* Header names as the caller spells them; "accept" and "Accept" are two
\* keys of the builder's map with one canonical MIME form.
HeaderNames == {"Accept", "accept", "Content-Type", "Authorization", "Content-Length"}
CanonNames == {"Accept", "Content-Type", "Authorization", "Content-Length"}
JSONType == "application/json"
HeaderVals == {"x", JSONType}
Accepts == "*/*"
Tokens == {"abc"}

\* Partial header maps handed to WithHeaders: at most two names.
HeaderMaps ==
    UNION {[S -> HeaderVals] : S \in {T \in SUBSET HeaderNames : Cardinality(T) <= 2}}

\* Query keys in sorted order, and query values (a plain one, one holding a
\* delimiter, one holding a control byte).
KeyOrder == <<"j", "k">>
QueryKeys == {"j", "k"}
QueryVals == {<<"a">>, <<"&">>, <<"\n">>}
BulkLists == {<<>>, <<<<"a">>>>, <<<<"&">>, <<"a">>>>}
QueryMaps == UNION {[S -> BulkLists] : S \in SUBSET QueryKeys}

\* Values handed to WithJSONBody: the nil interface, a string, a number and a
\* channel (which encoding/json cannot marshal).
JNil == [kind |-> "nil", s |-> "", n |-> 0]
JStr == [kind |-> "string", s |-> "hi", n |-> 0]
JNum == [kind |-> "number", s |-> "", n |-> 42]
JChan == [kind |-> "chan", s |-> "", n |-> 0]
JSONVals == {JNil, JStr, JNum, JChan}

\* Raw bodies handed to WithBodyBytes: none, and one of 17 bytes.  Neither is
\* the serialization of a value of JSONVals.
Raw17 == "0123456789abcdefg"
RawBodies == {"", Raw17}

\* Decode targets: none, two pointers, and a non-pointer (json rejects it).
Targets == {Nil, "ptr1", "ptr2", "nonptr"}

Methods == {"GET", "POST", "PUT", "PATCH", "DELETE"}
Contexts == {Nil, "ctx"}
GoodPath == "widgets/42"
BadPath == "%zz"
Paths == {GoodPath, BadPath}

\* What the transport does with a request: fail, or answer with a body that
\* is well-formed JSON or is not.
TrFail == [err |-> TRUE, respBody |-> ""]
TrJSON == [err |-> FALSE, respBody |-> "{\"a\":1}"]
TrGarbage == [err |-> FALSE, respBody |-> "{"]
Transports == {TrFail, TrJSON, TrGarbage}

(***************************************************************************)
(* Library functions the builder calls                                     *)
(***************************************************************************)
Digits == <<"0", "1", "2", "3", "4", "5", "6", "7", "8", "9">>

RECURSIVE Itoa(_)
Itoa(n) == IF n < 10 THEN Digits[n + 1] ELSE Itoa(n \div 10) \o Digits[(n % 10) + 1]

\* json.Marshal: (bytes, err); bytes is nil when err is not.
Marshal(v) ==
    CASE v.kind = "string" -> [bytes |-> "\"" \o v.s \o "\"", err |-> Nil]
      [] v.kind = "number" -> [bytes |-> Itoa(v.n), err |-> Nil]
      [] v.kind = "nil"    -> [bytes |-> "null", err |-> Nil]
      [] OTHER             -> [bytes |-> "", err |-> "json: unsupported type"]

\* textproto.CanonicalMIMEHeaderKey, as http.Header.Set/Add/Get apply it.
Canonical(name) == IF name = "accept" THEN "Accept" ELSE name

IsCTL(c) == c = "\n"

\* url.QueryEscape of one character.
EscapeChar(c) ==
    CASE c = "&"  -> <<"%", "2", "6">>
      [] c = "="  -> <<"%", "3", "D">>
      [] c = "%"  -> <<"%", "2", "5">>
      [] c = "\n" -> <<"%", "0", "A">>
      [] c = " "  -> <<"+">>
      [] OTHER    -> <<c>>

RECURSIVE QueryEscape(_)
QueryEscape(s) == IF s = <<>> THEN <<>> ELSE EscapeChar(Head(s)) \o QueryEscape(Tail(s))

IsHex(c) == c \in {"0", "1", "2", "3", "4", "5", "6", "7", "8", "9",
                   "A", "B", "C", "D", "E", "F", "a", "b", "c", "d", "e", "f"}

\* The byte a %XY escape stands for.
HexDecode(hi, lo) ==
    CASE hi = "2" /\ lo = "6" -> "&"
      [] hi = "3" /\ lo = "D" -> "="
      [] hi = "2" /\ lo = "5" -> "%"
      [] hi = "0" /\ lo = "A" -> "\n"
      [] OTHER                -> "?"

\* url.QueryUnescape: (string, err).
RECURSIVE QueryUnescape(_)
QueryUnescape(s) ==
    IF s = <<>> THEN [out |-> <<>>, err |-> Nil]
    ELSE IF Head(s) = "%"
         THEN IF Len(s) < 3 \/ ~IsHex(s[2]) \/ ~IsHex(s[3])
              THEN [out |-> <<>>, err |-> "invalid URL escape"]
              ELSE LET r == QueryUnescape(SubSeq(s, 4, Len(s)))
                   IN  [out |-> IF r.err = Nil THEN <<HexDecode(s[2], s[3])>> \o r.out ELSE <<>>,
                        err |-> r.err]
         ELSE LET r == QueryUnescape(Tail(s))
                  c == IF Head(s) = "+" THEN " " ELSE Head(s)
              IN  [out |-> IF r.err = Nil THEN <<c>> \o r.out ELSE <<>>, err |-> r.err]

\* The "k=v" pairs of one key, each preceded by "&".
RECURSIVE EncodeKey(_, _)
EncodeKey(k, vs) ==
    IF vs = <<>> THEN <<>>
    ELSE <<"&">> \o QueryEscape(<<k>>) \o <<"=">> \o QueryEscape(Head(vs)) \o EncodeKey(k, Tail(vs))

RECURSIVE EncodeFrom(_, _)
EncodeFrom(q, i) ==
    IF i > Len(KeyOrder) THEN <<>>
    ELSE EncodeKey(KeyOrder[i], q[KeyOrder[i]]) \o EncodeFrom(q, i + 1)

\* url.Values.Encode: keys in sorted order, pairs joined by "&".
Encode(q) == LET s == EncodeFrom(q, 1) IN IF s = <<>> THEN <<>> ELSE Tail(s)

\* url.Parse of the call's path.
ParsePath(path) == IF path = BadPath THEN "invalid URL escape" ELSE Nil

\* http.NewRequestWithContext: a nil context is refused, and so is a URL
\* holding a control byte (the method is one of the five constants).
NewRequestErr(ctx, rawQuery) ==
    IF ctx = Nil THEN "net/http: nil Context"
    ELSE IF \E i \in 1..Len(rawQuery) : IsCTL(rawQuery[i])
         THEN "net/url: invalid control character in URL"
         ELSE Nil

\* json.Decoder.Decode of the response body into the target.
Decode(respBody, target) ==
    IF target = "nonptr" THEN "json: Unmarshal(non-pointer)"
    ELSE IF respBody = TrJSON.respBody THEN Nil ELSE "unexpected EOF"

(***************************************************************************)
(* The builder: pure parts of its methods                                  *)
(***************************************************************************)
\* New: the header map holds the Accept value and nothing else.
NewHeaders(accepts) == [n \in HeaderNames |-> IF n = "Accept" THEN accepts ELSE Absent]

\* r.headers[key] = value
SetHeader(h, key, value) == [h EXCEPT ![key] = value]

\* for key, value := range headers { r.headers[key] = value }
MergeHeaders(h, m) == [n \in HeaderNames |-> IF n \in DOMAIN m THEN m[n] ELSE h[n]]

\* r.queryParams.Add(key, value): append to the key's list.
AddValue(q, key, value) == [q EXCEPT ![key] = Append(@, value)]


\* A merge that appends to the key's list.
MergeQueryAppend(q, m) == [k \in QueryKeys |-> IF k \in DOMAIN m THEN q[k] \o m[k] ELSE q[k]]

\* for key, value := range queryParams { r.queryParams[key] = value }
MergeQuery(q, m) == [k \in QueryKeys |-> IF k \in DOMAIN m THEN m[k] ELSE q[k]]


\* Every verb serializes.
NeedsMarshalAnyVerb(method, b) == b # JNil

\* Post, Put and Patch serialize a non-nil pending body; Get and Delete do not.
NeedsMarshal(method, b) == method \in {"POST", "PUT", "PATCH"} /\ b # JNil

NoHeader == [c \in CanonNames |-> <<>>]
NoReq == [built |-> FALSE, body |-> "", header |-> NoHeader]

\* The spellings of a canonical name, and those the builder's map holds.
Spellings(c) == {n \in HeaderNames : Canonical(n) = c}
Present(h, c) == {n \in Spellings(c) : h[n] # Absent}

\* The range loop over r.headers visits the keys in an order the runtime
\* picks.  req.Header.Set replaces the canonical name's values, so of the keys
\* sharing a canonical form the one visited last decides; `last` is the set
\* of those deciding keys, one for each canonical name the map holds.
LastChoices(h) ==
    {W \in SUBSET {n \in HeaderNames : h[n] # Absent} :
        \A c \in CanonNames : Present(h, c) # {} => Cardinality(W \cap Spellings(c)) = 1}

ApplyHeaders(h, last) ==
    [c \in CanonNames |->
        IF last \cap Spellings(c) = {} THEN <<>>
        ELSE <<h[CHOOSE n \in last \cap Spellings(c) : TRUE]>>]


\* Content-Length written with Set.
SetContentLength(hdr, bb) ==
    IF Len(bb) > 0 THEN [hdr EXCEPT !["Content-Length"] = <<Itoa(Len(bb))>>] ELSE hdr

\* if len(r.bodyBytes) > 0 { req.Header.Add("Content-Length", ...) }
AddContentLength(hdr, bb) ==
    IF Len(bb) > 0
    THEN [hdr EXCEPT !["Content-Length"] = Append(@, Itoa(Len(bb)))]
    ELSE hdr

\* Request.Request: (req, err).
Request(h, q, bb, ctx, method, path, last) ==
    LET perr == ParsePath(path)
        unesc == QueryUnescape(Encode(q))
        nerr == NewRequestErr(ctx, unesc.out)
    IN  IF perr # Nil THEN [err |-> perr, req |-> NoReq]
        ELSE IF unesc.err # Nil THEN [err |-> unesc.err, req |-> NoReq]
        ELSE IF nerr # Nil THEN [err |-> nerr, req |-> NoReq]
        ELSE [err |-> Nil,
              req |-> [built |-> TRUE, body |-> bb,
                       header |-> AddContentLength(ApplyHeaders(h, last), bb)]]


\* The transport invoked whatever Request returned.
TransportCallsUnchecked(reqErr) == 1

\* How often do() invokes the transport, given Request's error.
TransportCalls(reqErr) == IF reqErr # Nil THEN 0 ELSE 1


\* A close that a failed decode skips.
CloseCountSkipped(decodeErr) == IF decodeErr # Nil THEN 0 ELSE 1

\* defer resp.Body.Close(): runs once on every return after the transport
\* answered, whatever the decoder said.
CloseCount(decodeErr) == 1


\* The target returned beside an error.
ReturnValueWithError(target, err) == target

\* What do() returns beside the error.
ReturnValue(target, err) == IF err # Nil THEN Nil ELSE target

\* The outcome of a call that failed before do() was entered.
Aborted(method, ctx, path, tr, err) ==
    [method |-> method, ctx |-> ctx, path |-> path, tr |-> tr, err |-> err,
     ret |-> Nil, sent |-> 0, closes |-> 0, req |-> NoReq, decodedInto |-> Nil]

\* Request.do
do(h, q, bb, target, ctx, method, path, last, tr) ==
    LET r == Request(h, q, bb, ctx, method, path, last)
        sent == TransportCalls(r.err)
        base == [method |-> method, ctx |-> ctx, path |-> path, tr |-> tr, err |-> Nil,
                 ret |-> Nil, sent |-> sent, closes |-> 0, req |-> r.req,
                 decodedInto |-> Nil]
    IN  IF sent = 0 THEN [base EXCEPT !.err = r.err, !.ret = ReturnValue(target, r.err)]
        ELSE IF r.err # Nil
             THEN [base EXCEPT !.err = r.err, !.ret = ReturnValue(target, r.err)]
        ELSE IF tr.err
             THEN [base EXCEPT !.err = "transport", !.ret = ReturnValue(target, "transport")]
        ELSE LET derr == IF target # Nil THEN Decode(tr.respBody, target) ELSE Nil
             IN  [base EXCEPT !.err = derr,
                              !.ret = ReturnValue(target, derr),
                              !.closes = CloseCount(derr),
                              !.decodedInto = IF target # Nil THEN target ELSE Nil]

NoCall == Aborted("none", Nil, GoodPath, TrFail, Nil)

(***************************************************************************)
(* Initial state: New(requestURL, httpClient, accepts)                     *)
(***************************************************************************)
Init ==
    /\ headers = NewHeaders(Accepts)
    /\ queryParams = [k \in QueryKeys |-> <<>>]
    /\ body = JNil
    /\ bodyBytes = ""
    /\ result = Nil
    /\ call = NoCall
    /\ lastWrite = [n \in HeaderNames |-> IF n = "Accept" THEN Accepts ELSE Absent]
    /\ jsonBodySet = FALSE
    /\ callerWroteJSONType = FALSE
    /\ lastBulk = [k \in QueryKeys |-> <<>>]
    /\ singles = [k \in QueryKeys |-> <<>>]

(***************************************************************************)
(* Configuration operations                                                *)
(***************************************************************************)
WithHeader(key, value) ==
    /\ headers' = SetHeader(headers, key, value)
    /\ lastWrite' = [lastWrite EXCEPT ![key] = value]
    /\ callerWroteJSONType' =
           (callerWroteJSONType \/ (Canonical(key) = "Content-Type" /\ value = JSONType))
    /\ call' = NoCall
    /\ UNCHANGED <<queryParams, body, bodyBytes, result, jsonBodySet, lastBulk, singles>>

WithQueryParam(key, value) ==
    /\ Len(queryParams[key]) < MaxVals
    /\ queryParams' = AddValue(queryParams, key, value)
    /\ singles' = [singles EXCEPT ![key] = Append(@, value)]
    /\ call' = NoCall
    /\ UNCHANGED <<headers, body, bodyBytes, result, lastWrite, jsonBodySet,
                   callerWroteJSONType, lastBulk>>

WithJSONBody(v) ==
    /\ headers' = SetHeader(headers, "Content-Type", JSONType)
    /\ body' = v
    /\ lastWrite' = [lastWrite EXCEPT !["Content-Type"] = JSONType]
    /\ jsonBodySet' = TRUE
    /\ call' = NoCall
    /\ UNCHANGED <<queryParams, bodyBytes, result, callerWroteJSONType, lastBulk, singles>>


\* A raw body that marks the request as JSON.
WithBodyBytesAsJSON(b) ==
    /\ bodyBytes' = b
    /\ headers' = SetHeader(headers, "Content-Type", JSONType)
    /\ lastWrite' = [lastWrite EXCEPT !["Content-Type"] = JSONType]
    /\ call' = NoCall
    /\ UNCHANGED <<queryParams, body, result, jsonBodySet, callerWroteJSONType, lastBulk, singles>>

WithBodyBytes(b) ==
    /\ bodyBytes' = b
    /\ call' = NoCall
    /\ UNCHANGED <<headers, queryParams, body, result, ghosts>>

WithAuthorization(token) ==
    /\ headers' = SetHeader(headers, "Authorization", "Bearer " \o token)
    /\ lastWrite' = [lastWrite EXCEPT !["Authorization"] = "Bearer " \o token]
    /\ call' = NoCall
    /\ UNCHANGED <<queryParams, body, bodyBytes, result, jsonBodySet,
                   callerWroteJSONType, lastBulk, singles>>

WithHeaders(m) ==
    /\ headers' = MergeHeaders(headers, m)
    /\ lastWrite' = [n \in HeaderNames |-> IF n \in DOMAIN m THEN m[n] ELSE lastWrite[n]]
    /\ callerWroteJSONType' =
           (callerWroteJSONType
            \/ \E n \in DOMAIN m : Canonical(n) = "Content-Type" /\ m[n] = JSONType)
    /\ call' = NoCall
    /\ UNCHANGED <<queryParams, body, bodyBytes, result, jsonBodySet, lastBulk, singles>>

WithQueryParams(m) ==
    /\ queryParams' = MergeQuery(queryParams, m)
    /\ lastBulk' = [k \in QueryKeys |-> IF k \in DOMAIN m THEN m[k] ELSE lastBulk[k]]
    /\ singles' = [k \in QueryKeys |-> IF k \in DOMAIN m THEN <<>> ELSE singles[k]]
    /\ call' = NoCall
    /\ UNCHANGED <<headers, body, bodyBytes, result, lastWrite, jsonBodySet,
                   callerWroteJSONType>>

WithResult(target) ==
    /\ result' = target
    /\ call' = NoCall
    /\ UNCHANGED <<headers, queryParams, body, bodyBytes, ghosts>>

(***************************************************************************)
(* Invocation operations                                                   *)
(***************************************************************************)
\* The body shared by the five verb methods: serialize where the verb does,
\* then do().  r.bodyBytes is assigned json.Marshal's first result even when
\* the second is an error.
Invoke(method, ctx, path, last, tr) ==
    LET m == Marshal(body)
        bb == IF NeedsMarshal(method, body) THEN m.bytes ELSE bodyBytes
    IN  /\ bodyBytes' = bb
        /\ call' = IF NeedsMarshal(method, body) /\ m.err # Nil
                   THEN Aborted(method, ctx, path, tr, m.err)
                   ELSE do(headers, queryParams, bb, result, ctx, method, path, last, tr)
        /\ UNCHANGED <<headers, queryParams, body, result, ghosts>>

Get(ctx, path, last, tr) == Invoke("GET", ctx, path, last, tr)

Post(ctx, path, last, tr) == Invoke("POST", ctx, path, last, tr)

Put(ctx, path, last, tr) == Invoke("PUT", ctx, path, last, tr)

Patch(ctx, path, last, tr) == Invoke("PATCH", ctx, path, last, tr)

Delete(ctx, path, last, tr) == Invoke("DELETE", ctx, path, last, tr)

\* One verb call with every input the caller and the environment can supply.
Verbs(ctxs, paths, trs) ==
    \E ctx \in ctxs, path \in paths, tr \in trs, last \in LastChoices(headers) :
        \/ Get(ctx, path, last, tr)
        \/ Post(ctx, path, last, tr)
        \/ Put(ctx, path, last, tr)
        \/ Patch(ctx, path, last, tr)
        \/ Delete(ctx, path, last, tr)

(***************************************************************************)
(* Specifications                                                          *)
(***************************************************************************)
Next ==
    \/ \E key \in HeaderNames, value \in HeaderVals : WithHeader(key, value)
    \/ \E key \in QueryKeys, value \in QueryVals : WithQueryParam(key, value)
    \/ \E v \in JSONVals : WithJSONBody(v)
    \/ \E b \in RawBodies : WithBodyBytes(b)
    \/ \E token \in Tokens : WithAuthorization(token)
    \/ \E m \in HeaderMaps : WithHeaders(m)
    \/ \E m \in QueryMaps : WithQueryParams(m)
    \/ \E target \in Targets : WithResult(target)
    \/ Verbs(Contexts, Paths, Transports)

Spec == Init /\ [][Next]_vars

\* A caller that sets bodies and decode targets and calls every verb, under
\* every failure the path, the context and the transport can cause.  The
\* operations left out write only headers and query parameters.
NextBody ==
    \/ \E v \in JSONVals : WithJSONBody(v)
    \/ \E b \in RawBodies : WithBodyBytes(b)
    \/ \E target \in Targets : WithResult(target)
    \/ WithQueryParam("j", <<"\n">>)
    \/ Verbs(Contexts, Paths, Transports)

SpecBody == Init /\ [][NextBody]_vars

\* A caller that uses every operation that writes a header, sets bodies, and
\* calls every verb; calls succeed up to the transport.
NextHeaders ==
    \/ \E key \in HeaderNames, value \in HeaderVals : WithHeader(key, value)
    \/ \E token \in Tokens : WithAuthorization(token)
    \/ \E m \in HeaderMaps : WithHeaders(m)
    \/ \E v \in {JNil, JStr} : WithJSONBody(v)
    \/ \E b \in RawBodies : WithBodyBytes(b)
    \/ Verbs({"ctx"}, {GoodPath}, {TrJSON})

SpecHeaders == Init /\ [][NextHeaders]_vars

\* A caller that uses both query operations and calls every verb.
NextQuery ==
    \/ \E key \in QueryKeys, value \in QueryVals : WithQueryParam(key, value)
    \/ \E m \in QueryMaps : WithQueryParams(m)
    \/ Verbs({"ctx"}, {GoodPath}, {TrJSON})

SpecQuery == Init /\ [][NextQuery]_vars

(***************************************************************************)
(* Properties                                                              *)
(***************************************************************************)
Called == call.method # "none"

\* req.Header.Get(name): the first value under the canonical name, or "".
HeaderGet(hdr, name) ==
    IF hdr[Canonical(name)] = <<>> THEN "" ELSE Head(hdr[Canonical(name)])

\* The Content-Length values the caller's own header leaves on the request.
CallerLength == IF headers["Content-Length"] = Absent THEN <<>> ELSE <<headers["Content-Length"]>>

\* The call named by `call` had to fail before anything was sent: the pending
\* body does not serialize on a serializing verb, the path does not parse, the
\* query string does not unescape, or the request cannot be constructed.
PreSendFailure ==
    LET unesc == QueryUnescape(Encode(queryParams))
    IN  \/ call.method \in {"POST", "PUT", "PATCH"} /\ body # JNil /\ Marshal(body).err # Nil
        \/ ParsePath(call.path) # Nil
        \/ unesc.err # Nil
        \/ NewRequestErr(call.ctx, unesc.out) # Nil

\* C1: with a JSON body set, the request a Get or Delete builds does not carry
\* that body's serialized bytes, also after an earlier Post, Put or Patch
\* serialized it.
C1_GetDeleteCarryNoJSON ==
    (/\ call.method \in {"GET", "DELETE"}
     /\ call.req.built
     /\ body # JNil
     /\ Marshal(body).err = Nil)
    => call.req.body # Marshal(body).bytes

\* C2: a verb call invokes the transport at most once, and not at all, with a
\* non-nil error returned, when it fails before sending (serialization, path
\* parse, query unescape, request construction).
C2_TransportAtMostOnce ==
    Called =>
        /\ call.sent \in {0, 1}
        /\ PreSendFailure => (call.sent = 0 /\ call.err # Nil /\ ~call.req.built)

\* A Post whose pending body cannot be serialized returned an error and sent
\* nothing.
C2_Witness ==
    /\ call.method = "POST"
    /\ body = JChan
    /\ call.ctx = "ctx"
    /\ call.path = GoodPath
    /\ call.sent = 0
    /\ call.err # Nil

\* C3: a verb call that returns an error leaves headers, query parameters,
\* pending JSON body, raw body bytes and decode target as they were.
C3_FailedCallKeepsConfig ==
    [][(call'.method # "none" /\ call'.err # Nil) => UNCHANGED config]_vars

\* C4: the response body is closed exactly once before the call returns when
\* the transport answered without error (no target, decode success, decode
\* failure), and never otherwise.
C4_BodyClosedOnce ==
    Called =>
        IF call.sent = 1 /\ ~call.tr.err THEN call.closes = 1 ELSE call.closes = 0

\* Decoding a malformed response failed and the body was closed once.
C4_Witness ==
    /\ Called
    /\ call.sent = 1
    /\ call.tr = TrGarbage
    /\ result = "ptr1"
    /\ call.err # Nil
    /\ call.closes = 1

\* C5 as stated: the builder never holds a pending JSON body value and a raw
\* byte body at the same time.
C5_NeverBothBodies == ~(body # JNil /\ Len(bodyBytes) > 0)

\* C5 amended: the builder may hold both, but each request carries one: the
\* serialization of the pending JSON body on Post, Put and Patch when that
\* body is not nil, and otherwise the bytes the raw field held before the call.
C5_OneBodySent ==
    [][(call'.method # "none" /\ call'.req.built) =>
          call'.req.body = IF call'.method \in {"POST", "PUT", "PATCH"} /\ body # JNil
                           THEN Marshal(body).bytes
                           ELSE bodyBytes]_vars

\* Both representations are held and a Get sent the raw one.
C5_Witness ==
    /\ body = JStr
    /\ bodyBytes = Raw17
    /\ call.method = "GET"
    /\ call.req.built
    /\ call.req.body = Raw17

\* C6: a key's value list is the list of the most recent bulk merge holding
\* the key (empty if none) followed by the values added singly since, in add
\* order; keys a merge does not hold are left alone.
C6_QueryValueList ==
    \A k \in QueryKeys : queryParams[k] = lastBulk[k] \o singles[k]

\* A key was bulk-merged and then added to.
C6_Witness ==
    \E k \in QueryKeys :
        /\ lastBulk[k] = <<<<"a">>>>
        /\ singles[k] = <<<<"&">>>>
        /\ queryParams[k] = <<<<"a">>, <<"&">>>>

\* C7: the value stored for a header name, and applied to the next outgoing
\* request, is the one the most recent operation writing that name wrote;
\* Accept is always present.
C7_LastWriteWins ==
    /\ \A n \in HeaderNames : headers[n] = lastWrite[n]
    /\ headers["Accept"] # Absent
    /\ call.req.built =>
          \A n \in HeaderNames :
              lastWrite[n] # Absent => HeaderGet(call.req.header, n) = lastWrite[n]

\* C8 as stated: with a non-empty body the request's Content-Length is the
\* decimal length of the body, also when the caller set a Content-Length; with
\* an empty body the builder adds none.
C8_ContentLengthIsLength ==
    call.req.built =>
        IF Len(call.req.body) > 0
        THEN HeaderGet(call.req.header, "Content-Length") = Itoa(Len(call.req.body))
        ELSE call.req.header["Content-Length"] = CallerLength

\* C8 amended: with a non-empty body the builder appends the decimal length
\* to the request's Content-Length values ("17" for 17 bytes): the only value
\* when the caller set none, and after the caller's value when the caller set
\* one; with an empty body the builder adds none.
C8_ContentLengthAppended ==
    call.req.built =>
        /\ call.req.header["Content-Length"] =
               IF Len(call.req.body) > 0
               THEN CallerLength \o <<Itoa(Len(call.req.body))>>
               ELSE CallerLength
        /\ call.req.body = Raw17 =>
               call.req.header["Content-Length"][Len(call.req.header["Content-Length"])] = "17"

\* The caller set Content-Length and a 17-byte body was sent.
C8_Witness ==
    /\ headers["Content-Length"] = "x"
    /\ call.req.built
    /\ call.req.body = Raw17
    /\ call.req.header["Content-Length"] = <<"x", "17">>

\* C9 as stated: a sent request's Content-Type is application/json only if
\* WithJSONBody was called earlier on the builder.
C9_JSONTypeOnlyAfterJSONBody ==
    (call.req.built /\ HeaderGet(call.req.header, "Content-Type") = JSONType)
    => jsonBodySet

\* C9 amended: ... only if WithJSONBody was called earlier or the caller
\* wrote application/json to Content-Type through WithHeader or WithHeaders.
C9_JSONTypeOnlyWhenWritten ==
    (call.req.built /\ HeaderGet(call.req.header, "Content-Type") = JSONType)
    => (jsonBodySet \/ callerWroteJSONType)

\* A request went out as application/json with no JSON body ever set.
C9_Witness ==
    /\ call.req.built
    /\ HeaderGet(call.req.header, "Content-Type") = JSONType
    /\ ~jsonBodySet
    /\ callerWroteJSONType

\* C10: a verb call returns the decode target and a nil error, or nil and a
\* non-nil error; the call does not reset the target, and a call that decodes
\* decodes into it.
C10_ReturnShape ==
    [][call'.method # "none" =>
          /\ result' = result
          /\ call'.err = Nil => call'.ret = result
          /\ call'.err # Nil => call'.ret = Nil
          /\ (call'.sent = 1 /\ ~call'.tr.err /\ result # Nil) => call'.decodedInto = result
          /\ call'.decodedInto \in {Nil, result}]_vars

\* A call with a target set succeeded and returned that target.
C10_Witness ==
    /\ Called
    /\ result = "ptr1"
    /\ call.err = Nil
    /\ call.ret = "ptr1"
    /\ call.decodedInto = "ptr1"
====
